---- MODULE Spec2Model ----
(***************************************************************************)
(* cdk-destroy-with-running-ecs: the two variants of main.go, run against  *)
(* one scripted control plane.                                             *)
(*                                                                         *)
(* A Go string is a sequence of atoms; an atom is either the path          *)
(* separator "/" or a chunk of characters holding no separator.  The empty *)
(* string is <<>>.  A nil *string is the one-atom string Nil.              *)
(***************************************************************************)
EXTENDS Integers, Sequences, FiniteSets, TLC

\* ---------------------------------------------------------------- bounds
MaxResources == 2   \* entries of a ListStackResources response
MaxServices  == 3   \* services registered in the cluster
PageSize     == 2   \* service ARNs one ListServices response page holds
MaxTasks     == 2   \* running tasks of the cluster
MaxArnLen    == 4   \* atoms of an input of the short-name extraction

\* --------------------------------------------------------------- strings
Sep == "/"
Nil == <<"<nil>">>
S(chunk) == <<chunk>>

Min(a, b) == IF a <= b THEN a ELSE b

\* strings.Split(s, "/"): the separator-free pieces of s, in order.
Split(s) ==
    LET cuts == <<0>> \o SelectSeq([k \in 1..Len(s) |-> k], LAMBDA k : s[k] = Sep)
                      \o <<Len(s) + 1>>
    IN  [n \in 1..(Len(cuts) - 1) |-> SubSeq(s, cuts[n] + 1, cuts[n + 1] - 1)]

\* A mutant of arnToName: the first piece instead of the last.
arnToNameFirst(arn) == Split(arn)[1]

arnToName(arn) ==
    LET parts == Split(arn) IN parts[Len(parts)]

\* aws.ToString(p): "" for a nil pointer.
ToStringPtr(p) == IF p = Nil THEN <<>> ELSE p

\* path.Clean on the pieces of a path: drops "" and ".", resolves "..".
RECURSIVE CleanParts(_, _, _)
CleanParts(parts, out, rooted) ==
    IF parts = <<>> THEN out
    ELSE LET p == Head(parts)
             rest == Tail(parts)
         IN  IF p = <<>> \/ p = S(".") THEN CleanParts(rest, out, rooted)
             ELSE IF p = S("..")
             THEN IF out # <<>> /\ out[Len(out)] # S("..")
                  THEN CleanParts(rest, SubSeq(out, 1, Len(out) - 1), rooted)
                  ELSE IF rooted THEN CleanParts(rest, out, rooted)
                  ELSE CleanParts(rest, Append(out, p), rooted)
             ELSE CleanParts(rest, Append(out, p), rooted)

RECURSIVE JoinParts(_)
JoinParts(parts) ==
    IF parts = <<>> THEN <<>>
    ELSE IF Len(parts) = 1 THEN parts[1]
    ELSE parts[1] \o <<Sep>> \o JoinParts(Tail(parts))

Clean(path) ==
    IF path = <<>> THEN S(".")
    ELSE LET rooted == path[1] = Sep
             body == CHOOSE b \in
                       { JoinParts(c) :
                           c \in { CleanParts(sp, <<>>, rooted) : sp \in {Split(path)} } } :
                       TRUE
         IN  IF rooted THEN <<Sep>> \o body
             ELSE IF body = <<>> THEN S(".") ELSE body

\* filepath.Join(dir, file): empty elements are ignored, the rest joined by
\* the separator and cleaned; "" when every element is empty.
FilepathJoin(dir, file) ==
    IF dir = <<>> /\ file = <<>> THEN <<>>
    ELSE IF dir = <<>> THEN Clean(file)
    ELSE IF file = <<>> THEN Clean(dir)
    ELSE Clean(dir \o <<Sep>> \o file)

\* ------------------------------------------------------- the environment
Variants == {1, 2}      \* 1: main.go lines 1-252, 2: main.go lines 254-471

ClusterType == S("AWS::ECS::Cluster")

\* What a StackResourceSummary can be: (ResourceType, PhysicalResourceId),
\* both of them pointers.
ResourceKinds ==
    { [type |-> ClusterType, id |-> S("cluster-x")],
      [type |-> ClusterType, id |-> S("cluster-y")],
      [type |-> ClusterType, id |-> Nil],
      [type |-> S("AWS::S3::Bucket"), id |-> S("bucket-b")],
      [type |-> Nil, id |-> S("cluster-z")] }

SeqsUpTo(set, n) == UNION { [1..k -> set] : k \in 0..n }

StackListings == SeqsUpTo(ResourceKinds, MaxResources)

\* The k-th service of the cluster: the long ARN format for odd k, the
\* short one (no cluster segment) for even k.
SvcArn(k) ==
    IF k % 2 = 1
    THEN <<"arn:aws:ecs:region:acct:service", Sep, "cluster-x", Sep, "svc" \o ToString(k)>>
    ELSE <<"arn:aws:ecs:region:acct:service", Sep, "svc" \o ToString(k)>>

TaskArn(k) ==
    <<"arn:aws:ecs:region:acct:task", Sep, "cluster-x", Sep, "task" \o ToString(k)>>

\* The first response page of ListServices: the code sets no MaxResults and
\* never follows NextToken.
FirstPage(all) == SubSeq(all, 1, Min(Len(all), PageSize))

Cwd == <<Sep, "home">>      \* the directory the tool itself is started in

VARIABLES
    argv,       \* the command line: stack, profile, app directory, app file
    services,   \* the service ARNs registered in the cluster
    run,        \* run[v]: the state of variant v's process
    last,       \* the response to the latest call
    extract     \* short-name extraction on its own: input, result, progress

vars == <<argv, services, run, last, extract>>

\* --------------------------------------------------------------- flags
\* Variant 1 reads --cdk-app-dir and --cdk-app-file; variant 2 reads
\* --cdk-app-root and --cdk-app-path, given here the same root and the
\* same resolved entry-file path.
stackName     == argv.stack
profile       == argv.profile
region        == S("us-east-1")     \* variant 1 only; its default
cdkAppDir     == argv.dir
cdkAppFile    == argv.file
cdkAppRoot    == argv.dir
cdkAppPath    == FilepathJoin(argv.dir, argv.file)

Call(op, cluster, target, opt, outcome) ==
    [op |-> op, cluster |-> cluster, target |-> target, opt |-> opt,
     outcome |-> outcome]

Response(op, outcome, list) == [op |-> op, outcome |-> outcome, list |-> list]

\* The command lines tried: no --stack; no entry file; the root /app with
\* the entry file bin/app.ts and the profile prod; no root and no profile.
CommandLine(stack, prof, dir, file) ==
    [stack |-> stack, profile |-> prof, dir |-> dir, file |-> file]
CommandLines ==
    { CommandLine(<<>>, <<>>, <<>>, <<"bin", Sep, "app.ts">>),
      CommandLine(S("MyStack"), <<>>, <<>>, <<>>),
      CommandLine(S("MyStack"), S("prod"), <<Sep, "app">>, <<"bin", Sep, "app.ts">>),
      CommandLine(S("MyStack"), <<>>, <<>>, <<"bin", Sep, "app.ts">>) }

\* No extraction under way.
NoExtract == [phase |-> "idle", arn |-> <<>>, name |-> <<>>, again |-> <<>>]

Init ==
    /\ argv \in CommandLines
    /\ services \in { [k \in 1..n |-> SvcArn(k)] : n \in 0..MaxServices }
    /\ run = [v \in Variants |->
                [pc |-> "main", clusterName |-> <<>>,
                 svcArns |-> <<>>, i |-> 0, taskArns |-> <<>>, j |-> 0,
                 calls |-> <<>>, exec |-> <<>>, code |-> 0]]
    /\ last = Response("none", "none", <<>>)
    /\ extract = NoExtract

\* log.Fatal / log.Fatalf: os.Exit(1).
Fatal(r) == [r EXCEPT !.pc = "exited", !.code = 1]
\* A run-time panic (nil pointer dereference): exit status 2.
Panic(r) == [r EXCEPT !.pc = "exited", !.code = 2]

At(pc) == {v \in Variants : run[v].pc = pc}

\* ------------------------------------------------------------ main, flags
\* The required-flag checks at the head of main.
ParseFlags(v, r) ==
    IF stackName = <<>> THEN Fatal(r)
    ELSE IF v = 2 /\ cdkAppPath = <<>> THEN Fatal(r)
    ELSE [r EXCEPT !.pc = "loadAWSConfig"]

Main ==
    /\ At("main") # {}
    /\ run' = [v \in Variants |->
                 IF run[v].pc = "main" THEN ParseFlags(v, run[v]) ELSE run[v]]
    /\ UNCHANGED <<extract, argv, services, last>>

\* config.LoadDefaultConfig and main's check of its error.
DoLoadAWSConfig(v, r, outcome) ==
    LET c == Call("LoadDefaultConfig", <<>>, profile,
                  IF v = 1 THEN region ELSE <<>>, outcome)
        r1 == [r EXCEPT !.calls = Append(@, c)]
    IN  IF outcome = "error" THEN Fatal(r1)
        ELSE [r1 EXCEPT !.pc = "getEcsClusterNameFromStack"]

LoadAWSConfig ==
    /\ At("loadAWSConfig") # {}
    /\ \E outcome \in {"ok", "error"} :
         /\ run' = [v \in Variants |->
                      IF run[v].pc = "loadAWSConfig"
                      THEN DoLoadAWSConfig(v, run[v], outcome) ELSE run[v]]
         /\ last' = Response("LoadDefaultConfig", outcome, <<>>)
    /\ UNCHANGED <<extract, argv, services>>

\* -------------------------------------------------------- Stack Inspector
\* The loop over res.StackResourceSummaries.  Variant 1 converts the
\* physical id with aws.ToString, variant 2 dereferences the pointer.
RECURSIVE ScanResources(_, _)
ScanResources(v, list) ==
    IF list = <<>> THEN [panic |-> FALSE, name |-> <<>>]
    ELSE LET e == Head(list)
         IN  IF e.type # Nil /\ e.type = ClusterType
             THEN IF v = 1 THEN [panic |-> FALSE, name |-> ToStringPtr(e.id)]
                  ELSE IF e.id = Nil THEN [panic |-> TRUE, name |-> <<>>]
                  ELSE [panic |-> FALSE, name |-> e.id]
             ELSE ScanResources(v, Tail(list))

\* main's branch on clusterName: cluster found or not.
\* (mutant: the branch always taken)
AfterInspectAlways(name) == "deleteEcsServices"
AfterInspect(name) ==
    IF name = <<>> THEN "runCdkDestroy" ELSE "deleteEcsServices"

DoGetEcsClusterNameFromStack(v, r, outcome, list) ==
    LET c == Call("ListStackResources", <<>>, stackName, <<>>, outcome)
        r1 == [r EXCEPT !.calls = Append(@, c)]
    IN  IF outcome = "error" THEN Fatal(r1)
        ELSE LET res == ScanResources(v, list)
             IN  IF res.panic THEN Panic(r1)
                 ELSE [r1 EXCEPT !.clusterName = res.name,
                                 !.pc = AfterInspect(res.name)]

GetEcsClusterNameFromStack ==
    /\ At("getEcsClusterNameFromStack") # {}
    /\ \E resp \in {Response("ListStackResources", "error", <<>>)} \cup
                   {Response("ListStackResources", "ok", l) : l \in StackListings} :
         /\ run' = [v \in Variants |->
                      IF run[v].pc = "getEcsClusterNameFromStack"
                      THEN DoGetEcsClusterNameFromStack(v, run[v], resp.outcome, resp.list)
                      ELSE run[v]]
         /\ last' = resp
    /\ UNCHANGED <<extract, argv, services>>

\* -------------------------------------------------------- Service Drainer
\* The end of one iteration of the loop over listOut.ServiceArns.
NextService(r) ==
    IF r.i < Len(r.svcArns)
    THEN [r EXCEPT !.i = @ + 1, !.pc = "UpdateService"]
    ELSE [r EXCEPT !.pc = "stopRemainingTasks"]

\* ListServices and the checks that follow it.
DoListServices(r, outcome, list) ==
    LET c == Call("ListServices", r.clusterName, <<>>, <<>>, outcome)
        r1 == [r EXCEPT !.calls = Append(@, c)]
    IN  IF outcome = "error" THEN Fatal(r1)
        ELSE IF Len(list) = 0 THEN [r1 EXCEPT !.pc = "stopRemainingTasks"]
        ELSE [r1 EXCEPT !.svcArns = list, !.i = 1, !.pc = "UpdateService"]

ListServices ==
    /\ At("deleteEcsServices") # {}
    /\ \E resp \in {Response("ListServices", "error", <<>>),
                    Response("ListServices", "ok", FirstPage(services))} :
         /\ run' = [v \in Variants |->
                      IF run[v].pc = "deleteEcsServices"
                      THEN DoListServices(run[v], resp.outcome, resp.list)
                      ELSE run[v]]
         /\ last' = resp
    /\ UNCHANGED <<extract, argv, services>>

\* What follows UpdateService: `continue` on an error, the wait otherwise.
AfterUpdateNoContinue(r, outcome) == [r EXCEPT !.pc = "waitForServiceStable"]
\* (mutant: a failed update is tried again)
AfterUpdateRetry(r, outcome) ==
    IF outcome = "ok" THEN [r EXCEPT !.pc = "waitForServiceStable"] ELSE r
AfterUpdate(r, outcome) ==
    IF outcome = "ok" THEN [r EXCEPT !.pc = "waitForServiceStable"]
    ELSE NextService(r)

DoUpdateService(r, outcome) ==
    LET svcName == arnToName(r.svcArns[r.i])
        c == Call("UpdateService", r.clusterName, svcName, S("DesiredCount=0"), outcome)
    IN  AfterUpdate([r EXCEPT !.calls = Append(@, c)], outcome)

UpdateService ==
    /\ At("UpdateService") # {}
    /\ \E outcome \in {"ok", "error"} :
         /\ run' = [v \in Variants |->
                      IF run[v].pc = "UpdateService"
                      THEN DoUpdateService(run[v], outcome) ELSE run[v]]
         /\ last' = Response("UpdateService", outcome, <<>>)
    /\ UNCHANGED <<extract, argv, services>>

\* What follows the stability wait: the deletion, whatever the wait returned.
AfterWaitSkipDelete(r, outcome) ==
    IF outcome = "ok" THEN [r EXCEPT !.pc = "DeleteService"] ELSE NextService(r)
\* (mutant: a wait that hit its deadline is started again)
AfterWaitAgainOnTimeout(r, outcome) ==
    IF outcome = "timeout" THEN r ELSE [r EXCEPT !.pc = "DeleteService"]
AfterWait(r, outcome) == [r EXCEPT !.pc = "DeleteService"]

\* waitForServiceStable: ServicesStableWaiter.Wait with maxWait of 10 minutes;
\* it returns nil, an error, or the error of the deadline.
DoWaitForServiceStable(r, outcome) ==
    LET svcName == arnToName(r.svcArns[r.i])
        c == Call("WaitServicesStable", r.clusterName, svcName, S("maxWait=10m"), outcome)
    IN  AfterWait([r EXCEPT !.calls = Append(@, c)], outcome)

WaitForServiceStable ==
    /\ At("waitForServiceStable") # {}
    /\ \E outcome \in {"ok", "error", "timeout"} :
         /\ run' = [v \in Variants |->
                      IF run[v].pc = "waitForServiceStable"
                      THEN DoWaitForServiceStable(run[v], outcome) ELSE run[v]]
         /\ last' = Response("WaitServicesStable", outcome, <<>>)
    /\ UNCHANGED <<extract, argv, services>>

DoDeleteService(r, outcome) ==
    LET svcName == arnToName(r.svcArns[r.i])
        c == Call("DeleteService", r.clusterName, svcName, S("Force=true"), outcome)
    IN  NextService([r EXCEPT !.calls = Append(@, c)])

DeleteService ==
    /\ At("DeleteService") # {}
    /\ \E outcome \in {"ok", "error"} :
         /\ run' = [v \in Variants |->
                      IF run[v].pc = "DeleteService"
                      THEN DoDeleteService(run[v], outcome) ELSE run[v]]
         /\ last' = Response("DeleteService", outcome, <<>>)
    /\ UNCHANGED <<extract, argv, services>>

\* ------------------------------------------------------------ Task Reaper
\* The end of one iteration of the loop over listOut.TaskArns.
NextTaskStopAtError(r, outcome) ==
    IF outcome = "ok" /\ r.j < Len(r.taskArns)
    THEN [r EXCEPT !.j = @ + 1] ELSE [r EXCEPT !.pc = "runCdkDestroy"]
NextTask(r, outcome) ==
    IF r.j < Len(r.taskArns)
    THEN [r EXCEPT !.j = @ + 1]
    ELSE [r EXCEPT !.pc = "runCdkDestroy"]

\* A mutant of DoListTasks: a listing failure is logged, not returned.
DoListTasksLogOnly(r, outcome, list) ==
    LET c == Call("ListTasks", r.clusterName, <<>>, S("DesiredStatus=RUNNING"), outcome)
        r1 == [r EXCEPT !.calls = Append(@, c)]
    IN  IF outcome = "error" \/ Len(list) = 0 THEN [r1 EXCEPT !.pc = "runCdkDestroy"]
        ELSE [r1 EXCEPT !.taskArns = list, !.j = 1, !.pc = "StopTask"]

\* ListTasks (desired status RUNNING) and the checks that follow it.
DoListTasks(r, outcome, list) ==
    LET c == Call("ListTasks", r.clusterName, <<>>, S("DesiredStatus=RUNNING"), outcome)
        r1 == [r EXCEPT !.calls = Append(@, c)]
    IN  IF outcome = "error" THEN Fatal(r1)
        ELSE IF Len(list) = 0 THEN [r1 EXCEPT !.pc = "runCdkDestroy"]
        ELSE [r1 EXCEPT !.taskArns = list, !.j = 1, !.pc = "StopTask"]

ListTasks ==
    /\ At("stopRemainingTasks") # {}
    /\ \E resp \in {Response("ListTasks", "error", <<>>)} \cup
                   {Response("ListTasks", "ok", [k \in 1..n |-> TaskArn(k)]) :
                       n \in 0..MaxTasks} :
         /\ run' = [v \in Variants |->
                      IF run[v].pc = "stopRemainingTasks"
                      THEN DoListTasks(run[v], resp.outcome, resp.list)
                      ELSE run[v]]
         /\ last' = resp
    /\ UNCHANGED <<extract, argv, services>>

\* (mutant: the Cluster field left out, so the call goes to the default cluster)
DoStopTaskDefaultCluster(r, outcome) ==
    LET c == Call("StopTask", S("default"), r.taskArns[r.j],
                  S("Reason=Cleanup before destroy"), outcome)
    IN  NextTask([r EXCEPT !.calls = Append(@, c)], outcome)
DoStopTask(r, outcome) ==
    LET taskArn == r.taskArns[r.j]
        c == Call("StopTask", r.clusterName, taskArn,
                  S("Reason=Cleanup before destroy"), outcome)
    IN  NextTask([r EXCEPT !.calls = Append(@, c)], outcome)

StopTask ==
    /\ At("StopTask") # {}
    /\ \E outcome \in {"ok", "error"} :
         /\ run' = [v \in Variants |->
                      IF run[v].pc = "StopTask"
                      THEN DoStopTask(run[v], outcome) ELSE run[v]]
         /\ last' = Response("StopTask", outcome, <<>>)
    /\ UNCHANGED <<extract, argv, services>>

\* ------------------------------------------------------ Destroyer Invoker
\* The argument list of the destroy command.
DestroyArgs(prof, appPath) ==
    <<S("destroy"), S("--all"), S("--force")>>
    \o (IF prof # <<>> THEN <<S("--profile"), prof>> ELSE <<>>)
    \o <<S("--app"), <<"npx ts-node ">> \o appPath>>

\* exec.Command("cdk", args...): variant 1 joins directory and file name
\* and leaves cmd.Dir unset; variant 2 takes the path as given and sets
\* cmd.Dir to the app root.
Cmd(v) ==
    IF v = 1
    THEN [name |-> S("cdk"),
          args |-> DestroyArgs(profile, FilepathJoin(cdkAppDir, cdkAppFile)),
          dir  |-> <<>>]
    ELSE [name |-> S("cdk"),
          args |-> DestroyArgs(profile, cdkAppPath),
          dir  |-> cdkAppRoot]

\* os/exec: an empty cmd.Dir runs the command in the caller's directory.
WorkDir(cmd) == IF cmd.dir = <<>> THEN Cwd ELSE cmd.dir

\* main after runCdkDestroy: fatal on an error, "All done." otherwise.
\* (mutant: the destroy command is run before the Task Reaper)
AfterDestroyThenTasks(r, outcome) ==
    IF outcome = "ok" /\ r.clusterName # <<>> /\ r.taskArns = <<>>
    THEN [r EXCEPT !.pc = "stopRemainingTasks"]
    ELSE IF outcome = "ok" THEN [r EXCEPT !.pc = "exited", !.code = 0] ELSE Fatal(r)
AfterDestroy(r, outcome) ==
    IF outcome = "ok" THEN [r EXCEPT !.pc = "exited", !.code = 0] ELSE Fatal(r)

\* cmd.Run(): the child exits zero, exits non-zero, or cannot be started.
DoRunCdkDestroy(v, r, outcome) ==
    AfterDestroy([r EXCEPT !.exec = Append(@, [cmd |-> Cmd(v), outcome |-> outcome])],
                 outcome)

RunCdkDestroy ==
    /\ At("runCdkDestroy") # {}
    /\ \E outcome \in {"ok", "exit-nonzero", "start-error"} :
         /\ run' = [v \in Variants |->
                      IF run[v].pc = "runCdkDestroy"
                      THEN DoRunCdkDestroy(v, run[v], outcome) ELSE run[v]]
         /\ last' = Response("cdk", outcome, <<>>)
    /\ UNCHANGED <<extract, argv, services>>

Next ==
    \/ Main
    \/ LoadAWSConfig
    \/ GetEcsClusterNameFromStack
    \/ ListServices
    \/ UpdateService
    \/ WaitForServiceStable
    \/ DeleteService
    \/ ListTasks
    \/ StopTask
    \/ RunCdkDestroy

Spec == Init /\ [][Next]_vars

\* The variants that are still running are at the same place with the same
\* history, so one response per step is the same response for both.
InSync ==
    \A v, w \in Variants :
        run[v].pc # "exited" /\ run[w].pc # "exited" =>
            /\ run[v].pc = run[w].pc
            /\ run[v].clusterName = run[w].clusterName
            /\ run[v].svcArns = run[w].svcArns /\ run[v].i = run[w].i
            /\ run[v].taskArns = run[w].taskArns /\ run[v].j = run[w].j

\* ------------------------------------------------------------ vocabulary
Calls(v) == run[v].calls
Idx(v, op) == {k \in 1..Len(Calls(v)) : Calls(v)[k].op = op}
IdxOn(v, op, target) == {k \in Idx(v, op) : Calls(v)[k].target = target}
Issued(v, op, target) == IdxOn(v, op, target) # {}
Succeeded(v, op) == \E k \in Idx(v, op) : Calls(v)[k].outcome = "ok"
HasClusterEntry(list) == \E k \in 1..Len(list) : list[k].type = ClusterType
ClusterOps ==
    {"ListServices", "UpdateService", "WaitServicesStable", "DeleteService",
     "ListTasks", "StopTask"}
Stepped(v, op) == Calls(v) # <<>> /\ Calls(v)[Len(Calls(v))].op = op
InServiceLoop(v) ==
    run[v].pc \in {"UpdateService", "waitForServiceStable", "DeleteService"}
DrainerReturned(v) == Succeeded(v, "ListServices") /\ ~InServiceLoop(v)
\* Service n of the listing has been through its iteration of the loop.
Handled(v, n) == DrainerReturned(v) \/ (InServiceLoop(v) /\ n < run[v].i)

\* C1: when the stack listing succeeds and holds no entry of the cluster
\* type, the cluster name is empty, the run goes straight to the destroy
\* command, and no call on services or tasks is ever part of that run: its
\* calls stay the two it had (configuration, stack listing), and once it has
\* exited the destroy command has been invoked.
C1_NoClusterSkipsToDestroy ==
    \A v \in Variants :
        /\ (/\ last.op = "ListStackResources" /\ last.outcome = "ok"
            /\ ~HasClusterEntry(last.list)
            /\ Stepped(v, "ListStackResources"))
           => run[v].clusterName = <<>> /\ run[v].pc = "runCdkDestroy"
        /\ (/\ Succeeded(v, "ListStackResources")
            /\ run[v].clusterName = <<>>
            /\ run[v].pc \in {"runCdkDestroy", "exited"} /\ run[v].code # 2)
           => /\ \A k \in 1..Len(Calls(v)) : Calls(v)[k].op \notin ClusterOps
              /\ Len(Calls(v)) = 2
              /\ run[v].pc = "exited" <=> Len(run[v].exec) = 1

C1_Witness ==
    \E v \in Variants :
        /\ last.op = "ListStackResources" /\ last.outcome = "ok"
        /\ last.list # <<>> /\ ~HasClusterEntry(last.list)
        /\ Stepped(v, "ListStackResources")
        /\ run[v].pc = "runCdkDestroy"

\* C2: a service whose update to zero fails gets neither the stability wait
\* nor the delete call; every listed service that has had its turn got one
\* update attempt of its own, and its wait and delete when that succeeded.
C2_FailedUpdateSkipsOnlyThatService ==
    \A v \in Variants :
        LET updates == Idx(v, "UpdateService")
            waited  == {Calls(v)[k].target : k \in Idx(v, "WaitServicesStable")}
            deleted == {Calls(v)[k].target : k \in Idx(v, "DeleteService")}
        IN  \A n \in 1..Len(run[v].svcArns) :
                LET name == arnToName(run[v].svcArns[n])
                    mine == {k \in updates : Calls(v)[k].target = name}
                IN  /\ Handled(v, n) => Cardinality(mine) = 1
                    /\ \A k \in mine :
                         IF Calls(v)[k].outcome = "error"
                         THEN name \notin waited /\ name \notin deleted
                         ELSE Handled(v, n) => name \in waited /\ name \in deleted

\* The first listed service fails its update, the second is still updated,
\* waited for and deleted.
C2_Witness ==
    \E v \in Variants :
        /\ Len(run[v].svcArns) = 2 /\ DrainerReturned(v)
        /\ LET a == arnToName(run[v].svcArns[1])
               b == arnToName(run[v].svcArns[2])
           IN  /\ \E k \in IdxOn(v, "UpdateService", a) : Calls(v)[k].outcome = "error"
               /\ ~Issued(v, "DeleteService", a)
               /\ \E k \in IdxOn(v, "UpdateService", b) : Calls(v)[k].outcome = "ok"
               /\ Issued(v, "DeleteService", b)

\* C3: after a successful update the wait is issued, and whatever the wait
\* returns (success, error, deadline) the next call is the forced delete of
\* that same service; the loop then goes on to the next service.
C3_WaitFailureNeverSuppressesDelete ==
    \A v \in Variants :
        /\ \A k \in Idx(v, "UpdateService") :
             Calls(v)[k].outcome = "ok" =>
                IF k = Len(Calls(v)) THEN run[v].pc = "waitForServiceStable"
                ELSE /\ Calls(v)[k + 1].op = "WaitServicesStable"
                     /\ Calls(v)[k + 1].target = Calls(v)[k].target
        /\ \A k \in Idx(v, "WaitServicesStable") :
             IF k = Len(Calls(v)) THEN run[v].pc = "DeleteService"
             ELSE /\ Calls(v)[k + 1].op = "DeleteService"
                  /\ Calls(v)[k + 1].target = Calls(v)[k].target
                  /\ Calls(v)[k + 1].cluster = Calls(v)[k].cluster
                  /\ Calls(v)[k + 1].opt = S("Force=true")
        /\ DrainerReturned(v) =>
             Cardinality(Idx(v, "UpdateService")) = Len(run[v].svcArns)

\* A wait that hit its deadline and one that returned an error, each followed
\* by the delete of its service.
C3_Witness ==
    \E v \in Variants :
        /\ DrainerReturned(v)
        /\ \E k \in Idx(v, "WaitServicesStable") :
             Calls(v)[k].outcome = "timeout" /\ Calls(v)[k + 1].op = "DeleteService"
        /\ \E k \in Idx(v, "WaitServicesStable") :
             Calls(v)[k].outcome = "error" /\ Calls(v)[k + 1].op = "DeleteService"

ListingOps == {"ListStackResources", "ListServices", "ListTasks"}
FatalCall(c) ==
    c.op \in (ListingOps \cup {"LoadDefaultConfig"}) /\ c.outcome = "error"
EndedFatally(v) == run[v].pc = "exited" /\ run[v].code # 0

\* C4: a missing required flag, a failed configuration load, a failed
\* listing (stack resources, services, tasks) and a destroy process that does
\* not start or exits non-zero each end the run with a non-zero status: the
\* failing call is the last call of the run, and unless the failure is the
\* destroy command's own, the destroy command is never invoked.
C4_FatalConditionEndsRun ==
    \A v \in Variants :
        /\ (run[v].pc # "main" /\ (stackName = <<>> \/ (v = 2 /\ cdkAppPath = <<>>)))
           => EndedFatally(v) /\ Calls(v) = <<>> /\ run[v].exec = <<>>
        /\ \A k \in 1..Len(Calls(v)) :
             FatalCall(Calls(v)[k]) =>
                EndedFatally(v) /\ k = Len(Calls(v)) /\ run[v].exec = <<>>
        /\ \A k \in 1..Len(run[v].exec) :
             run[v].exec[k].outcome # "ok" => EndedFatally(v) /\ Len(run[v].exec) = 1

\* The task listing fails after a service was deleted: the run ends there.
C4_Witness ==
    \E v \in Variants :
        /\ EndedFatally(v) /\ run[v].exec = <<>>
        /\ Idx(v, "DeleteService") # {}
        /\ Stepped(v, "ListTasks") /\ FatalCall(Calls(v)[Len(Calls(v))])

\* C5: whatever the update, wait, delete and stop calls return, a run whose
\* listing calls all succeed invokes the destroy command, and its exit status
\* is zero exactly when the destroy process exits zero.
C5_PerItemFailuresKeepOutcome ==
    \A v \in Variants :
        (/\ run[v].pc = "exited"
         /\ Idx(v, "ListStackResources") # {}
         /\ \A k \in 1..Len(Calls(v)) :
              Calls(v)[k].op \in ListingOps => Calls(v)[k].outcome = "ok")
        => /\ Len(run[v].exec) = 1
           /\ run[v].code = 0 <=> run[v].exec[1].outcome = "ok"

\* C6: once the Service Drainer has returned without error, every service
\* registered in the cluster has had its update to zero issued, and its forced
\* delete if that update succeeded.
C6_EveryRegisteredServiceDrained ==
    \A v \in Variants :
        DrainerReturned(v) =>
            \A n \in 1..Len(services) :
                LET name == arnToName(services[n])
                IN  /\ Issued(v, "UpdateService", name)
                    /\ \A k \in IdxOn(v, "UpdateService", name) :
                         Calls(v)[k].outcome = "ok" =>
                            \E d \in IdxOn(v, "DeleteService", name) :
                                Calls(v)[d].opt = S("Force=true")

\* The directory --cdk-app-dir / --cdk-app-root names; the caller's own when
\* the flag is empty.
ConfiguredAppRoot == IF argv.dir = <<>> THEN Cwd ELSE argv.dir

\* C7: the destroy invocation is `cdk destroy --all --force`, then
\* `--profile P` exactly when P is not empty, then `--app "npx ts-node
\* <entry-path>"`, run in the configured app root; with the profile "prod",
\* the root /app and the entry path /app/bin/app.ts it is
\* destroy --all --force --profile prod --app "npx ts-node /app/bin/app.ts"
\* run in /app.
C7_DestroyInvocation ==
    \A v \in Variants : \A k \in 1..Len(run[v].exec) :
        LET cmd == run[v].exec[k].cmd
        IN  /\ cmd.name = S("cdk")
            /\ cmd.args =
                   <<S("destroy"), S("--all"), S("--force")>>
                   \o (IF profile = <<>> THEN <<>> ELSE <<S("--profile"), profile>>)
                   \o <<S("--app"), <<"npx ts-node ">> \o cdkAppPath>>
            /\ WorkDir(cmd) = ConfiguredAppRoot
            /\ (/\ profile = S("prod") /\ argv.dir = <<Sep, "app">>
                /\ cdkAppPath = <<Sep, "app", Sep, "bin", Sep, "app.ts">>)
               => /\ cmd.args = <<S("destroy"), S("--all"), S("--force"),
                                  S("--profile"), S("prod"), S("--app"),
                                  <<"npx ts-node ", Sep, "app", Sep, "bin", Sep, "app.ts">> >>
                  /\ WorkDir(cmd) = <<Sep, "app">>

\* The physical identifier of the first entry of the cluster type, "" if none.
FirstClusterId(list) ==
    LET hits == {k \in 1..Len(list) : list[k].type = ClusterType}
    IN  IF hits = {} THEN <<>>
        ELSE ToStringPtr(list[CHOOSE k \in hits : \A m \in hits : k <= m].id)

\* C8: on a successful stack listing the Stack Inspector returns the physical
\* identifier of the first entry of the cluster type, the empty string when
\* there is none; on a failed listing it returns the error, which ends the run.
C8_InspectorReturnsFirstCluster ==
    \A v \in Variants :
        (last.op = "ListStackResources" /\ Stepped(v, "ListStackResources")) =>
            IF last.outcome = "error"
            THEN EndedFatally(v) /\ run[v].code = 1
            ELSE /\ run[v].pc # "exited"
                 /\ run[v].clusterName = FirstClusterId(last.list)

StopCalls(v) ==
    LET IsStop(c) == c.op = "StopTask" IN SelectSeq(Calls(v), IsStop)

\* C9: after a successful task listing the stop requests issued so far are
\* exactly the listed tasks, one each, in list order, each with the reason
\* "Cleanup before destroy", whether or not earlier stops failed; an empty
\* listing gives no stop request, and the stage returns to main, which goes
\* on to the destroy command.
C9_OneStopPerListedTask ==
    \A v \in Variants :
        /\ (last.op = "ListTasks" /\ last.outcome = "ok" /\ Stepped(v, "ListTasks"))
           => /\ run[v].taskArns = last.list
              /\ last.list = <<>> => run[v].pc = "runCdkDestroy"
        /\ IF Succeeded(v, "ListTasks")
           THEN LET done == IF run[v].pc = "StopTask" THEN run[v].j - 1
                            ELSE Len(run[v].taskArns)
                IN  /\ Len(StopCalls(v)) = done
                    /\ \A k \in 1..done :
                         /\ StopCalls(v)[k].target = run[v].taskArns[k]
                         /\ StopCalls(v)[k].cluster = run[v].clusterName
                         /\ StopCalls(v)[k].opt = S("Reason=Cleanup before destroy")
                    /\ run[v].pc \in {"StopTask", "runCdkDestroy", "exited"}
                    /\ run[v].pc = "exited" => Len(run[v].exec) = 1
           ELSE StopCalls(v) = <<>>

\* Two tasks listed, the first stop fails, the second is still issued.
C9_Witness ==
    \E v \in Variants :
        /\ Len(run[v].taskArns) = 2 /\ run[v].pc = "runCdkDestroy"
        /\ Len(StopCalls(v)) = 2
        /\ StopCalls(v)[1].outcome = "error"

ControlPlaneCalls(v) ==
    LET IsControlPlane(c) == c.op # "LoadDefaultConfig"
    IN  SelectSeq(Calls(v), IsControlPlane)
Invocations(v) ==
    [k \in 1..Len(run[v].exec) |->
        [name |-> run[v].exec[k].cmd.name, args |-> run[v].exec[k].cmd.args,
         workdir |-> WorkDir(run[v].exec[k].cmd)]]

\* C10: given the same stack, responses, profile, app root and (non-empty)
\* resolved entry-file path, the two variants issue the same control-plane
\* calls and the same destroy invocation (command, arguments, working
\* directory) and end with the same exit status.
C10_VariantsEquivalent ==
    (cdkAppPath # <<>> /\ \A v \in Variants : run[v].pc = "exited") =>
        \A v, w \in Variants :
            /\ ControlPlaneCalls(v) = ControlPlaneCalls(w)
            /\ Invocations(v) = Invocations(w)
            /\ run[v].code = run[w].code

\* C11: nothing is retried.  Whatever fails, a run issues at most one update
\* and at most one delete per listed service, at most one stop per listed
\* task, each listing call at most once, and the destroy command at most once.
C11_NoRetry ==
    \A v \in Variants :
        /\ \A op \in {"UpdateService", "DeleteService", "StopTask"} :
             LET issued == Idx(v, op)
                 listed == IF op = "StopTask" THEN run[v].taskArns ELSE run[v].svcArns
             IN  /\ Cardinality({Calls(v)[k].target : k \in issued}) = Cardinality(issued)
                 /\ Cardinality(issued) <= Len(listed)
        /\ \A op \in ListingOps : Cardinality(Idx(v, op)) <= 1
        /\ Len(run[v].exec) <= 1

\* A run in which an update, a delete, a stop and the destroy command all
\* failed, each issued once.
C11_Witness ==
    \E v \in Variants :
        /\ run[v].pc = "exited" /\ Len(run[v].exec) = 1
        /\ run[v].exec[1].outcome # "ok"
        /\ \E k \in Idx(v, "UpdateService") : Calls(v)[k].outcome = "error"
        /\ \E k \in Idx(v, "DeleteService") : Calls(v)[k].outcome = "error"
        /\ \E k \in Idx(v, "StopTask") : Calls(v)[k].outcome = "error"

\* --------------------------------------------------- short-name extraction
\* arnToName on its own, over every string of at most MaxArnLen atoms drawn
\* from the separator and two separator-free chunks, and over the ARN of a
\* service in a cluster.
ExampleArn ==
    <<"arn:aws:ecs:region:acct:service", Sep, "cluster-x", Sep, "my-service">>
ArnInputs == SeqsUpTo({Sep, "a", "b"}, MaxArnLen) \cup {ExampleArn}

InitArn ==
    /\ extract \in {[phase |-> "input", arn |-> a, name |-> <<>>, again |-> <<>>] :
                       a \in ArnInputs}
    /\ argv = CommandLine(<<>>, <<>>, <<>>, <<>>)
    /\ services = <<>>
    /\ run = [v \in Variants |->
                [pc |-> "exited", clusterName |-> <<>>,
                 svcArns |-> <<>>, i |-> 0, taskArns |-> <<>>, j |-> 0,
                 calls |-> <<>>, exec |-> <<>>, code |-> 0]]
    /\ last = Response("none", "none", <<>>)

\* name := arnToName(arn)
ExtractName ==
    /\ extract.phase = "input"
    /\ extract' = [extract EXCEPT !.phase = "once", !.name = arnToName(extract.arn)]
    /\ UNCHANGED <<argv, services, run, last>>

\* again := arnToName(name)
ExtractAgain ==
    /\ extract.phase = "once"
    /\ extract' = [extract EXCEPT !.phase = "twice", !.again = arnToName(extract.name)]
    /\ UNCHANGED <<argv, services, run, last>>

NextArn ==
    \/ ExtractName
    \/ ExtractAgain

SpecArn == InitArn /\ [][NextArn]_vars

\* The part of s after its last separator; s itself when it has none.
AfterLastSep(s) ==
    LET seps == {k \in 1..Len(s) : s[k] = Sep}
    IN  IF seps = {} THEN s
        ELSE SubSeq(s, (CHOOSE k \in seps : \A m \in seps : m <= k) + 1, Len(s))

\* C12: the short name is the part of the input after its last "/": the
\* input itself when it holds no "/", "my-service" for
\* arn:aws:ecs:region:acct:service/cluster-x/my-service; it never holds a "/",
\* and extracting again gives the same name.
C12_ShortNameIsLastSegment ==
    /\ extract.phase \in {"once", "twice"} =>
          /\ extract.name = AfterLastSep(extract.arn)
          /\ (\A k \in 1..Len(extract.arn) : extract.arn[k] # Sep)
                => extract.name = extract.arn
          /\ \A k \in 1..Len(extract.name) : extract.name[k] # Sep
          /\ extract.arn = ExampleArn => extract.name = <<"my-service">>
    /\ extract.phase = "twice" => extract.again = extract.name

C12_Witness ==
    /\ extract.phase = "twice"
    /\ extract.arn = ExampleArn
    /\ extract.name = <<"my-service">>
    /\ extract.again = <<"my-service">>

\* The stage a call belongs to, and its place within one service's turn.
StageOf(op) ==
    CASE op = "LoadDefaultConfig" -> 0
      [] op = "ListStackResources" -> 1
      [] op = "ListServices" -> 2
      [] op \in {"UpdateService", "WaitServicesStable", "DeleteService"} -> 3
      [] op = "ListTasks" -> 4
      [] op = "StopTask" -> 5
TurnOf(op) ==
    CASE op = "UpdateService" -> 1
      [] op = "WaitServicesStable" -> 2
      [] op = "DeleteService" -> 3
\* The place in the service listing of the service a call is about.
ListedAt(v, target) ==
    CHOOSE n \in 1..Len(run[v].svcArns) : AfterLastSep(run[v].svcArns[n]) = target
TaskAt(v, target) ==
    CHOOSE n \in 1..Len(run[v].taskArns) : run[v].taskArns[n] = target

\* Each call comes after the one before it in the order of the stages, of
\* the listed services, of update-wait-delete, and of the listed tasks; the
\* order of any two calls follows from that of the neighbours between them.
OrderedCalls(v) ==
    \A k \in 1..(Len(Calls(v)) - 1) :
        LET a == Calls(v)[k]
            b == Calls(v)[k + 1]
        IN  /\ StageOf(a.op) <= StageOf(b.op)
            /\ (StageOf(a.op) = 3 /\ StageOf(b.op) = 3) =>
                  \/ ListedAt(v, a.target) < ListedAt(v, b.target)
                  \/ /\ a.target = b.target
                     /\ TurnOf(a.op) < TurnOf(b.op)
            /\ (a.op = "StopTask" /\ b.op = "StopTask") =>
                  TaskAt(v, a.target) < TaskAt(v, b.target)
            /\ a.op \in ListingOps => a.op # b.op

\* C13: the external actions of a run come stage by stage: the stack listing
\* before the service listing; update, wait, delete of one service in that
\* order and all before the first call for the next service; every service
\* call before the task listing; every stop before the destroy command; and
\* once the destroy command has been started no call is issued any more.
C13_StagesInOrder ==
    /\ [](\A v \in Variants :
            /\ OrderedCalls(v)
            /\ run[v].exec # <<>> => run[v].pc = "exited")
    /\ [][\A v \in Variants :
            run[v].exec # <<>> =>
                run'[v].calls = run[v].calls /\ run'[v].exec = run[v].exec]_vars

\* Two services drained, a task stopped, the destroy command run.
C13_Witness ==
    \E v \in Variants :
        /\ run[v].pc = "exited" /\ Len(run[v].exec) = 1
        /\ Cardinality(Idx(v, "DeleteService")) = 2
        /\ Cardinality(Idx(v, "StopTask")) >= 1

\* ------------------------------------------------------------ termination
\* The process is a single thread that goes from one call to the next, and
\* every call returns (the stability wait at the latest at its deadline, the
\* destroy command when the child exits): a step that can be taken is taken.
SpecFair == Spec /\ WF_vars(Next)

AllExited == \A v \in Variants : run[v].pc = "exited"

\* C14: every run ends, either with status 0 after the destroy command
\* exited zero or with a non-zero status; and it performs at most as many
\* stability waits as services were listed.
C14_RunTerminates ==
    /\ <>AllExited
    /\ [](\A v \in Variants :
            /\ run[v].pc = "exited" =>
                  \/ /\ run[v].code = 0
                     /\ Len(run[v].exec) = 1 /\ run[v].exec[1].outcome = "ok"
                  \/ run[v].code # 0
            /\ Cardinality(Idx(v, "WaitServicesStable")) <= Len(run[v].svcArns))

\* Every listed service was waited for, each wait ran into its deadline, and
\* the run still came to its end with "All done".
C14_Witness ==
    \E v \in Variants :
        /\ run[v].pc = "exited" /\ run[v].code = 0
        /\ Len(run[v].svcArns) = 2
        /\ Cardinality(Idx(v, "WaitServicesStable")) = 2
        /\ \A k \in Idx(v, "WaitServicesStable") : Calls(v)[k].outcome = "timeout"

\* ------------------------------------------------------------------ frame
Elems(seq) == {seq[k] : k \in 1..Len(seq)}
ClusterIdsOf(list) ==
    {ToStringPtr(list[k].id) : k \in {m \in 1..Len(list) : list[m].type = ClusterType}}
NamesOf(arns) == {AfterLastSep(arn) : arn \in Elems(arns)}
ListedBefore(v, k, op) ==
    \E m \in 1..(k - 1) : Calls(v)[m].op = op /\ Calls(v)[m].outcome = "ok"

\* What the run holds as discovered is what its three listings returned, and
\* it is taken once: the cluster from the stack listing, the services and the
\* tasks from the listings of that cluster.
DiscoveredFromListings(v) ==
    /\ IF run[v].pc = "getEcsClusterNameFromStack"
       THEN run'[v].clusterName # <<>> =>
               /\ last'.op = "ListStackResources"
               /\ run'[v].clusterName \in ClusterIdsOf(last'.list)
       ELSE run'[v].clusterName = run[v].clusterName
    /\ IF run[v].pc = "deleteEcsServices"
       THEN run'[v].svcArns # <<>> =>
               last'.op = "ListServices" /\ run'[v].svcArns = last'.list
       ELSE run'[v].svcArns = run[v].svcArns
    /\ IF run[v].pc = "stopRemainingTasks"
       THEN run'[v].taskArns # <<>> =>
               last'.op = "ListTasks" /\ run'[v].taskArns = last'.list
       ELSE run'[v].taskArns = run[v].taskArns

TargetsDiscovered(v) ==
    \A k \in 1..Len(Calls(v)) :
        LET c == Calls(v)[k]
        IN  /\ c.op \in ClusterOps =>
                 /\ c.cluster # <<>> /\ c.cluster = run[v].clusterName
                 /\ ListedBefore(v, k, "ListStackResources")
            /\ c.op \in {"UpdateService", "WaitServicesStable", "DeleteService"} =>
                 /\ c.target \in NamesOf(run[v].svcArns)
                 /\ ListedBefore(v, k, "ListServices")
            /\ c.op = "StopTask" =>
                 /\ c.target \in Elems(run[v].taskArns)
                 /\ ListedBefore(v, k, "ListTasks")

\* C15: every call on a cluster names the cluster the Stack Inspector
\* returned from this run's stack listing; update, wait and delete name a
\* service of this run's service listing of that cluster, stop-task a task of
\* this run's task listing of it; nothing else is ever a target.
C15_OnlyDiscoveredTargets ==
    /\ [](\A v \in Variants :
            TargetsDiscovered(v) /\ Elems(run[v].svcArns) \subseteq Elems(services))
    /\ [][\A v \in Variants : DiscoveredFromListings(v)]_vars

\* A run to the end that updated, deleted and stopped something.
C15_Witness ==
    \E v \in Variants :
        /\ run[v].pc = "exited"
        /\ Idx(v, "UpdateService") # {} /\ Idx(v, "DeleteService") # {}
        /\ Cardinality(Idx(v, "StopTask")) = 2

====
